---- MODULE Spec2Model ----
(***************************************************************************)
(* Model of the astro-nocodb content loader                                *)
(* (packages/astro-nocodb/loaders.ts): the paginated, rate-limited         *)
(* fetchAll and the per-record ingest loop of makeLoader.load.             *)
(*                                                                         *)
(* JavaScript values are modelled as records [t |-> type tag, s |-> the    *)
(* text String(v) yields], so that String(), truthiness (||) and the       *)
(* zod type checks are computed and not assumed.                           *)
(***************************************************************************)
EXTENDS Integers, Sequences, FiniteSets, TLC

(* ---------------------------------------------------------------------- *)
(* Bounds of the model                                                     *)
(* ---------------------------------------------------------------------- *)
MaxPages == 2
MaxRetries == 2
MaxItems == 2
\* the page size a table asks for in queryParams.limit
QueryLimit == 2

(* ---------------------------------------------------------------------- *)
(* Program constants                                                       *)
(* ---------------------------------------------------------------------- *)
DefaultLimit == 100
DefaultDelay == 2000
SampleDelay == 1000
\* queryParams.limit absent (or 0): falsy in queryParams.limit || 100
NoLimit == 0

(* ---------------------------------------------------------------------- *)
(* JavaScript values                                                       *)
(* ---------------------------------------------------------------------- *)
Undefined == [t |-> "undefined", s |-> "undefined"]
Null == [t |-> "null", s |-> "null"]
EmptyArray == [t |-> "array", s |-> ""]

Num(s) == [t |-> "number", s |-> s]

Str(s) == [t |-> "string", s |-> s]

\* truthiness as used by || and if (...)
Truthy(v) ==
    CASE v.t \in {"undefined", "null"} -> FALSE
      [] v.t = "number" -> v.s \notin {"0", "NaN"}
      [] v.t = "string" -> v.s # ""
      [] OTHER -> TRUE

\* String(v)
ToStr(v) == v.s

\* a || b
Or(a, b) == IF Truthy(a) THEN a ELSE b

\* o[k] of an object: undefined when the key is absent
Get(o, k) == IF k \in DOMAIN o THEN o[k] ELSE Undefined

\* delete o[k]
Delete(o, k) == [x \in (DOMAIN o) \ {k} |-> o[x]]

(* ---------------------------------------------------------------------- *)
(* Records served by the data source                                       *)
(* ---------------------------------------------------------------------- *)
IdValues == {Null, Num("0"), Str(""), Str("a")}
LowerIdValues == {Num("0"), Str("b")}

\* records that vary Id / id only
IdRecords ==
    {[Album |-> Str("s")]}
    \cup {[Id |-> v, Album |-> Str("s")] : v \in IdValues}
    \cup {[id |-> w, Album |-> Str("s")] : w \in LowerIdValues}
    \cup {[Id |-> v, id |-> w, Album |-> Str("s")] : v \in IdValues, w \in LowerIdValues}

\* records that vary the body candidates and the validity of Album
BodyRecords ==
    {[Id |-> Str("a"), content |-> c] : c \in {Str(""), Str("hello")}}
    \cup {[Id |-> Str("a"), Album |-> a, content |-> Str("hello")] : a \in {Str(""), Num("3")}}
    \cup {[Album |-> Num("3")], [content |-> Str("hello")]}

RawRecords == IdRecords \cup BodyRecords

RecA == [Id |-> Str("a"), Album |-> Str("s")]
RecB == [Id |-> Num("0"), Album |-> Str("s")]

\* the record lists a page of the full-load specification may carry
PageLists == {<< >>, <<RecA>>, <<RecB, RecA>>}

\* response.data of a successful response
\*   hasList = FALSE : data.list absent
\*   pageInfo = "absent" : data.pageInfo (or its isLastPage) absent
Pages ==
    [hasList : {TRUE}, list : PageLists, pageInfo : {"absent", "false", "true"}]
    \cup [hasList : {FALSE}, list : {<< >>}, pageInfo : {"absent", "false", "true"}]

(* ---------------------------------------------------------------------- *)
(* Table configuration                                                     *)
(* ---------------------------------------------------------------------- *)
\* limit stands for queryParams.limit; NoLimit is the absent (falsy) limit.
\* A table either follows the example configuration (its mapper and its
\* delay) or leaves both to the defaults.
\* declared is the bodyField the table declares ("absent": none), bodyField
\* the one makeLoader is given; schema names the table's schema, the example
\* mapper goes with the example schema.

\* bodyField = 'content' in the destructuring of the table's options
DefaultBodyField(declared) == IF declared = "absent" THEN "content" ELSE declared

Configs ==
    {c \in [retries : 0..MaxRetries, delay : {SampleDelay, DefaultDelay},
            limit : {NoLimit, QueryLimit}, mapper : {"none", "sample"},
            schema : {"sample", "content"},
            declared : {"absent", "content", "Album"},
            bodyField : {"content", "Album"}] :
        /\ c.mapper = "sample" <=> c.delay = SampleDelay
        /\ c.mapper = "sample" => c.schema = "sample"
        /\ c.bodyField = DefaultBodyField(c.declared)}

\* baseUrl, apiKey   the connection settings handed to nocodbCollections
\* collections   the tables for which a collection and loader were defined
\* cfg       the table's options (nocodbCollections)
\* pc        where the program stands: "config" (nocodbCollections not yet
\*           called), "configError" (it threw), "call" (about to issue axios.get),
\*           "await" (request in flight), "wait" (backoff timer running),
\*           "loop" (ingest loop), "done" (load resolved), "raised" (load
\*           rejected by parseData), "rejected" (fetchAll rejected)
\* offset, results, retries, delay   the arguments of the current fetchAll call
\* requests  the requests issued so far, with the budget they were sent with
\* received  the answers so far: "page", "status429", "thrown429", "error"
\* waits     the delays handed to setTimeout so far
\* served    the response.data of the pages received so far
\* outcome   the path by which fetchAll returned
\* items, idx, store   the fetched list, the loop position, the DataStore
\* ids       the id handed to parseData for each record of this run
\* sets      the entries handed to store.set in this run, in call order
\* run, snapshot   the run of load in progress; the store when it began
VARIABLES baseUrl, apiKey, collections,
          cfg, pc, offset, results, retries, delay,
          requests, received, waits, served, outcome,
          items, idx, store, ids, sets, run, snapshot

vars == <<baseUrl, apiKey, collections,
          cfg, pc, offset, results, retries, delay,
          requests, received, waits, served, outcome,
          items, idx, store, ids, sets, run, snapshot>>

setupVars == <<baseUrl, apiKey, collections>>

fetchVars == <<offset, results, retries, delay, requests, received, waits, served, outcome>>

ingestVars == <<items, idx, store, ids, sets, run, snapshot>>

(* ---------------------------------------------------------------------- *)
(* nocodbCollections                                                       *)
(* ---------------------------------------------------------------------- *)
\* what baseUrl and apiKey may hold: unset, empty, set
SettingValues == {Undefined, Str(""), Str("set")}

\* the tables of the configuration
Tables == {"sample", "articles"}

\* variant: the configuration is refused only when both settings are missing
MissingConfigBoth(url, key) == ~Truthy(url) /\ ~Truthy(key)

\* !baseUrl || !apiKey
MissingConfig(url, key) == ~Truthy(url) \/ ~Truthy(key)

\* nocodbCollections(config): throws on a missing setting before the loop
\* over the tables, else defines a collection with its loader for every table
NocodbCollections ==
    /\ pc = "config"
    /\ IF MissingConfig(baseUrl, apiKey)
       THEN /\ pc' = "configError"
            /\ collections' = {}
       ELSE /\ pc' = "call"
            /\ collections' = Tables
    /\ UNCHANGED <<baseUrl, apiKey, cfg>>
    /\ UNCHANGED fetchVars
    /\ UNCHANGED ingestVars

(* ---------------------------------------------------------------------- *)
(* fetchAll                                                                *)
(* ---------------------------------------------------------------------- *)
\* queryParams.limit || 100
PageSize(limit) == IF limit = NoLimit THEN DefaultLimit ELSE limit

\* const list = data.list || []
ListOf(data) == IF data.hasList THEN data.list ELSE << >>

\* variant: the page is put in front of the accumulator
PushFront(acc, list) == list \o acc

\* results.push(...list)
Push(acc, list) == acc \o list

\* !pageInfo.isLastPage with pageInfo = data.pageInfo || {}
NotLastPage(data) == data.pageInfo # "true"

\* variant: the offset counts pages, not records
NextOffsetPageIndex(off, limit) == off + 1

\* offset of the recursive call for the next page
NextOffset(off, limit) == off + PageSize(limit)

\* retry budget handed to the recursive call for the next page
NextPageRetries(remaining, configured) == remaining

\* variant: the next page starts again from the configured delay
NextPageDelayReset(current, configured) == configured

\* delay handed to the recursive call for the next page
NextPageDelay(current, configured) == current

\* retry budget and delay of the recursive call after a 429
\* variant: a retry costs no budget
RetryBudgetKeep(remaining) == remaining

RetryBudget(remaining) == remaining - 1

\* variant: the delay of a retry is not doubled
BackoffNone(d) == d

Backoff(d) == d * 2

\* variant: every error that carries a response counts as rate limiting
Is429Loose(err) == err.hasResponse

\* error.response && error.response.status === 429
Is429Error(err) == err.hasResponse /\ err.status = 429

\* the errors axios.get can throw, and the Error thrown for an exhausted
\* budget on a resolved 429 (it carries no response)
Thrown429 == [hasResponse |-> TRUE, status |-> 429]
ThrownErrors == {[hasResponse |-> TRUE, status |-> 500], [hasResponse |-> FALSE, status |-> 0]}
RetryLimitError == [hasResponse |-> FALSE, status |-> 0]

\* the request about to be sent, as logged: page = pages received so far
Request == [offset |-> offset, limit |-> PageSize(cfg.limit),
            retries |-> retries, page |-> Len(served)]

\* start of a fetchAll call: build the URL and issue axios.get
SendRequest ==
    /\ pc = "call"
    /\ requests' = Append(requests, Request)
    /\ pc' = "await"
    /\ UNCHANGED setupVars
    /\ UNCHANGED <<cfg, offset, results, retries, delay, received, waits, served, outcome>>
    /\ UNCHANGED ingestVars

\* return results: the value reaches load as items and the loop starts
Return(value, why) ==
    /\ pc' = "loop"
    /\ items' = value
    /\ idx' = 1
    /\ outcome' = why

\* await setTimeout(delay), with the arguments of the call that follows
EnterWait ==
    /\ pc' = "wait"
    /\ waits' = Append(waits, [delay |-> delay, page |-> Len(served)])

\* variant: a thrown 429 is not retried, the catch block always returns
CatchNoRetry(err, why) ==
    /\ Return(results, IF Is429Error(err) THEN "exhaustedThrown" ELSE why)
    /\ UNCHANGED waits

\* variant: an error that is no 429 is thrown on to the caller
CatchRethrow(err, why) ==
    IF Is429Error(err)
    THEN IF retries > 0
         THEN /\ EnterWait
              /\ UNCHANGED <<items, idx, outcome>>
         ELSE /\ Return(results, "exhaustedThrown")
              /\ UNCHANGED waits
    ELSE /\ pc' = "rejected"
         /\ outcome' = why
         /\ UNCHANGED <<items, idx, waits>>

\* the catch block; why names the return path when the error is no 429
Catch(err, why) ==
    IF Is429Error(err)
    THEN IF retries > 0
         THEN /\ EnterWait
              /\ UNCHANGED <<items, idx, outcome>>
         ELSE /\ Return(results, "exhaustedThrown")
              /\ UNCHANGED waits
    ELSE /\ Return(results, why)
         /\ UNCHANGED waits

\* axios.get resolves with status 429
RespondStatus429 ==
    /\ pc = "await"
    /\ received' = Append(received, "status429")
    /\ IF retries > 0
       THEN /\ EnterWait
            /\ UNCHANGED <<items, idx, outcome>>
       ELSE Catch(RetryLimitError, "exhaustedStatus")
    /\ UNCHANGED setupVars
    /\ UNCHANGED <<cfg, offset, results, retries, delay, requests, served>>
    /\ UNCHANGED <<store, ids, sets, run, snapshot>>

\* axios.get rejects with a 429 response
RespondThrown429 ==
    /\ pc = "await"
    /\ received' = Append(received, "thrown429")
    /\ Catch(Thrown429, "error")
    /\ UNCHANGED setupVars
    /\ UNCHANGED <<cfg, offset, results, retries, delay, requests, served>>
    /\ UNCHANGED <<store, ids, sets, run, snapshot>>

\* axios.get rejects with any other error
RespondError ==
    /\ pc = "await"
    /\ received' = Append(received, "error")
    /\ \E err \in ThrownErrors : Catch(err, "error")
    /\ UNCHANGED setupVars
    /\ UNCHANGED <<cfg, offset, results, retries, delay, requests, served>>
    /\ UNCHANGED <<store, ids, sets, run, snapshot>>

\* axios.get resolves with a page; the source serves at most MaxPages pages
RespondOk ==
    /\ pc = "await"
    /\ \E data \in Pages :
        /\ Len(served) + 1 >= MaxPages => data.pageInfo = "true"
        /\ received' = Append(received, "page")
        /\ served' = Append(served, data)
        /\ results' = Push(results, ListOf(data))
        /\ IF NotLastPage(data)
           THEN /\ pc' = "call"
                /\ offset' = NextOffset(offset, cfg.limit)
                /\ retries' = NextPageRetries(retries, cfg.retries)
                /\ delay' = NextPageDelay(delay, cfg.delay)
                /\ UNCHANGED <<items, idx, outcome>>
           ELSE /\ Return(results', "last")
                /\ UNCHANGED <<offset, retries, delay>>
    /\ UNCHANGED setupVars
    /\ UNCHANGED <<cfg, requests, waits>>
    /\ UNCHANGED <<store, ids, sets, run, snapshot>>

\* the backoff timer fires: recursive call for the same offset
TimerFires ==
    /\ pc = "wait"
    /\ pc' = "call"
    /\ retries' = RetryBudget(retries)
    /\ delay' = Backoff(delay)
    /\ UNCHANGED setupVars
    /\ UNCHANGED <<cfg, offset, results, requests, received, waits, served, outcome>>
    /\ UNCHANGED ingestVars

(* ---------------------------------------------------------------------- *)
(* makeLoader.load: the ingest loop                                        *)
(* ---------------------------------------------------------------------- *)
\* toString of the example utilities: v == null ? '' : String(v)
UtilToString(v) == IF v.t \in {"undefined", "null"} THEN Str("") ELSE Str(ToStr(v))

\* the example mapper
SampleMapper(raw) ==
    [Id |-> UtilToString(Get(raw, "Id")),
     Album |-> Get(raw, "Album"),
     Thumbnail |-> IF Truthy(Get(raw, "Thumbnail")) THEN Get(raw, "Thumbnail") ELSE EmptyArray,
     Platform |-> Get(raw, "Platform"),
     Budget |-> Get(raw, "Budget")]

\* mapper ? mapper(rawItem) : rawItem
MapItem(mapper, raw) == IF mapper = "sample" THEN SampleMapper(raw) ELSE raw

\* variant: ?? in place of ||, only undefined and null fall through
DeriveIdNullish(m) ==
    ToStr(IF Get(m, "Id").t \notin {"undefined", "null"} THEN Get(m, "Id")
          ELSE IF Get(m, "id").t \notin {"undefined", "null"} THEN Get(m, "id")
          ELSE Str("unknown"))

\* String(mappedItem.Id || mappedItem.id || 'unknown')
DeriveId(m) == ToStr(Or(Or(Get(m, "Id"), Get(m, "id")), Str("unknown")))

\* the example schema: the accepted types of each key (all optional)
SampleSchema ==
    [Id |-> {"string", "undefined"},
     Album |-> {"string", "undefined"},
     Thumbnail |-> {"array", "undefined"},
     Platform |-> {"string", "undefined"},
     Budget |-> {"number", "undefined"}]

\* a schema with a content key, as in a table of articles
ContentSchema ==
    [Id |-> {"string", "undefined"},
     content |-> {"string", "undefined"}]

\* the schema the collection was defined with
Schema == IF cfg.schema = "content" THEN ContentSchema ELSE SampleSchema

\* parseData succeeds: every key of the schema holds an accepted type
Valid(schema, m) == \A k \in DOMAIN schema : Get(m, k).t \in schema[k]

\* the value parseData resolves with: unknown keys are stripped
ParseData(schema, m) == [k \in (DOMAIN schema) \cap (DOMAIN m) |-> m[k]]

\* variant: the body is set but the key stays in data
MakeEntryKeepKey(id, parsed, bodyField) ==
    IF Truthy(Get(parsed, bodyField))
    THEN [id |-> id, data |-> parsed, body |-> parsed[bodyField]]
    ELSE [id |-> id, data |-> parsed, body |-> Undefined]

\* storeEntry, with the body field promoted out of data
MakeEntry(id, parsed, bodyField) ==
    IF Truthy(Get(parsed, bodyField))
    THEN [id |-> id, data |-> Delete(parsed, bodyField), body |-> parsed[bodyField]]
    ELSE [id |-> id, data |-> parsed, body |-> Undefined]

\* variant: an id already in the store keeps its first entry
StoreSetKeepFirst(st, e) ==
    IF \E i \in DOMAIN st : st[i].id = e.id THEN st ELSE Append(st, e)

\* variant: every set adds an entry
StoreAppend(st, e) == Append(st, e)

\* DataStore.set: upsert by id, an existing id keeps its position
StoreSet(st, e) ==
    IF \E i \in DOMAIN st : st[i].id = e.id
    THEN [i \in DOMAIN st |-> IF st[i].id = e.id THEN e ELSE st[i]]
    ELSE Append(st, e)

\* variant: the entry is stored before parseData has validated the record
LoopIterationStoreFirst ==
    /\ pc = "loop"
    /\ idx <= Len(items)
    /\ LET mapped == MapItem(cfg.mapper, items[idx])
           id == DeriveId(mapped)
           storeEntry == MakeEntry(id, ParseData(Schema, mapped), cfg.bodyField)
       IN /\ ids' = Append(ids, id)
          /\ store' = StoreSet(store, storeEntry)
          /\ sets' = Append(sets, storeEntry)
          /\ IF Valid(Schema, mapped)
             THEN /\ idx' = idx + 1
                  /\ pc' = "loop"
             ELSE /\ pc' = "raised"
                  /\ idx' = idx
    /\ UNCHANGED setupVars
    /\ UNCHANGED <<cfg, items, run, snapshot>>
    /\ UNCHANGED fetchVars

\* one iteration of for (const rawItem of items); a parseData that throws
\* rejects load
LoopIteration ==
    /\ pc = "loop"
    /\ idx <= Len(items)
    /\ LET mapped == MapItem(cfg.mapper, items[idx])
           id == DeriveId(mapped)
       IN /\ ids' = Append(ids, id)
          /\ IF Valid(Schema, mapped)
             THEN LET storeEntry == MakeEntry(id, ParseData(Schema, mapped), cfg.bodyField)
                  IN /\ store' = StoreSet(store, storeEntry)
                     /\ sets' = Append(sets, storeEntry)
                     /\ idx' = idx + 1
                     /\ pc' = "loop"
             ELSE /\ pc' = "raised"
                  /\ UNCHANGED <<store, sets, idx>>
    /\ UNCHANGED setupVars
    /\ UNCHANGED <<cfg, items, run, snapshot>>
    /\ UNCHANGED fetchVars

\* the loop is over: load resolves
LoopEnd ==
    /\ pc = "loop"
    /\ idx > Len(items)
    /\ pc' = "done"
    /\ UNCHANGED setupVars
    /\ UNCHANGED <<cfg, items, idx, store, ids, sets, run, snapshot>>
    /\ UNCHANGED fetchVars

\* the framework runs load again on the same store; the source serves the
\* same records
Reload ==
    /\ pc \in {"done", "raised"}
    /\ run = 1
    /\ run' = 2
    /\ snapshot' = store
    /\ idx' = 1
    /\ ids' = << >>
    /\ sets' = << >>
    /\ pc' = "loop"
    /\ UNCHANGED setupVars
    /\ UNCHANGED <<cfg, items, store>>
    /\ UNCHANGED fetchVars

(* ---------------------------------------------------------------------- *)
(* Specifications                                                          *)
(* ---------------------------------------------------------------------- *)
\* a full load: fetchAll from offset 0 into an empty store
Init ==
    /\ baseUrl \in SettingValues
    /\ apiKey \in SettingValues
    /\ collections = {}
    /\ cfg \in Configs
    /\ pc = "config"
    /\ offset = 0
    /\ results = << >>
    /\ retries = cfg.retries
    /\ delay = cfg.delay
    /\ requests = << >>
    /\ received = << >>
    /\ waits = << >>
    /\ served = << >>
    /\ outcome = "none"
    /\ items = << >>
    /\ idx = 0
    /\ store = << >>
    /\ ids = << >>
    /\ sets = << >>
    /\ run = 1
    /\ snapshot = << >>

Next ==
    \/ NocodbCollections
    \/ SendRequest
    \/ RespondStatus429
    \/ RespondThrown429
    \/ RespondError
    \/ RespondOk
    \/ TimerFires
    \/ LoopIteration
    \/ LoopEnd

Spec == Init /\ [][Next]_vars

\* load of one collection with the example query (no mapper, the default
\* body field): the state when load calls fetchAll
InitFetch ==
    /\ baseUrl = Str("set")
    /\ apiKey = Str("set")
    /\ collections = Tables
    /\ cfg \in {c \in Configs : c.mapper = "none" /\ c.schema = "sample" /\ c.declared = "absent"}
    /\ pc = "call"
    /\ offset = 0
    /\ results = << >>
    /\ retries = cfg.retries
    /\ delay = cfg.delay
    /\ requests = << >>
    /\ received = << >>
    /\ waits = << >>
    /\ served = << >>
    /\ outcome = "none"
    /\ items = << >>
    /\ idx = 0
    /\ store = << >>
    /\ ids = << >>
    /\ sets = << >>
    /\ run = 1
    /\ snapshot = << >>

\* the source answers the request in flight
Respond ==
    \/ RespondStatus429
    \/ RespondThrown429
    \/ RespondError
    \/ RespondOk

NextFetch ==
    \/ SendRequest
    \/ RespondStatus429
    \/ RespondThrown429
    \/ RespondError
    \/ RespondOk
    \/ TimerFires
    \/ LoopIteration
    \/ LoopEnd

\* every awaited promise settles: the call is made, the request in flight is
\* answered, the timer of setTimeout fires
SpecFetch ==
    /\ InitFetch
    /\ [][NextFetch]_vars
    /\ WF_vars(SendRequest)
    /\ WF_vars(Respond)
    /\ WF_vars(TimerFires)

\* entries an earlier run may have left in the store
OldEntries ==
    {[id |-> "a", data |-> [Id |-> Str("a")], body |-> Str("old")],
     [id |-> "unknown", data |-> [Album |-> Str("old")], body |-> Undefined]}

InitialStores == {<< >>} \cup {<<e>> : e \in OldEntries}

RECURSIVE SeqsUpTo(_, _)
SeqsUpTo(S, n) ==
    IF n = 0 THEN {<< >>}
    ELSE LET shorter == SeqsUpTo(S, n - 1)
         IN shorter \cup {Append(q, x) : q \in {r \in shorter : Len(r) = n - 1}, x \in S}

\* the ingest loop on its own: fetchAll has returned items (any list of
\* records), the store holds what an earlier run left
InitIngest ==
    /\ baseUrl = Str("set")
    /\ apiKey = Str("set")
    /\ collections = Tables
    /\ cfg \in {c \in Configs : c.retries = 0 /\ c.limit = NoLimit}
    /\ pc = "loop"
    /\ offset = 0
    /\ results = << >>
    /\ retries = cfg.retries
    /\ delay = cfg.delay
    /\ requests = << >>
    /\ received = << >>
    /\ waits = << >>
    /\ served = << >>
    /\ outcome = "none"
    /\ items \in SeqsUpTo(RawRecords, MaxItems)
    /\ idx = 1
    /\ store \in InitialStores
    /\ ids = << >>
    /\ sets = << >>
    /\ run = 1
    /\ snapshot = store

NextIngest ==
    \/ LoopIteration
    \/ LoopEnd
    \/ Reload

SpecIngest == InitIngest /\ [][NextIngest]_vars

TypeOK ==
    /\ pc \in {"config", "configError", "call", "await", "wait", "loop", "done", "raised", "rejected"}
    /\ retries \in 0..MaxRetries
    /\ outcome \in {"none", "last", "error", "exhaustedStatus", "exhaustedThrown"}

(* ---------------------------------------------------------------------- *)
(* Properties                                                              *)
(* ---------------------------------------------------------------------- *)
RECURSIVE Concat(_)
\* the record lists of the pages, one after the other
Concat(pages) ==
    IF pages = << >> THEN << >>
    ELSE ListOf(Head(pages)) \o Concat(Tail(pages))

\* the number of records the pages hold
CountRecords(pages) == Len(Concat(pages))

RECURSIVE Pow2(_)
Pow2(n) == IF n = 0 THEN 1 ELSE 2 * Pow2(n - 1)

\* fetchAll has returned to load
Fetched == pc \in {"loop", "done", "raised"}

\* load is over, resolved or rejected
LoadOver == pc \in {"done", "raised"}

Exhausted == outcome \in {"exhaustedStatus", "exhaustedThrown"}

\* the number of 429 answers among the first n responses
RateLimits(n) == Cardinality({i \in 1..n : received[i] \in {"status429", "thrown429"}})

\* C1: when every request was answered by a page and the last page alone
\* reports isLastPage = true, fetchAll returns the pages' records
\* concatenated in page order.
C1_Concatenation ==
    (outcome = "last" /\ \A i \in DOMAIN received : received[i] = "page")
        => (Fetched /\ items = Concat(served))

C1_Witness ==
    /\ outcome = "last"
    /\ \A i \in DOMAIN received : received[i] = "page"
    /\ Len(served) = 2
    /\ ListOf(served[1]) = <<RecB, RecA>>
    /\ ListOf(served[2]) = <<RecA>>
    /\ Fetched

\* C2 (as claimed): the offset of every request equals the number of
\* records received in the pages before it.
C2_OffsetIsRecordCount ==
    \A i \in DOMAIN requests :
        requests[i].offset = CountRecords(SubSeq(served, 1, requests[i].page))

\* C3 (as claimed): the first request of every page carries the configured
\* retry budget.
C3_BudgetPerPage ==
    \A i \in DOMAIN requests :
        (i = 1 \/ requests[i - 1].page # requests[i].page)
            => requests[i].retries = cfg.retries

\* C4: when the retry budget is exhausted, by a 429 status or by a thrown
\* 429, fetchAll does not raise and returns exactly the records of the
\* pages received before.
C4_ExhaustionReturnsPartial ==
    (/\ received # << >>
     /\ Len(received) = Len(requests)
     /\ received[Len(received)] \in {"status429", "thrown429"}
     /\ requests[Len(requests)].retries = 0)
        => (Fetched /\ Exhausted /\ items = Concat(served))

C4_Witness ==
    /\ outcome = "exhaustedStatus"
    /\ Fetched
    /\ Len(served) = 1
    /\ items = <<RecB, RecA>>
    /\ Len(waits) = 2

\* C5: an error that is no 429 ends the fetch: it is the last response,
\* answers the last request, is followed by no wait, costs no retry budget,
\* and fetchAll returns the records of the pages received before.
C5_ErrorStopsFetch ==
    \A i \in DOMAIN received :
        received[i] = "error"
            => /\ i = Len(received)
               /\ i = Len(requests)
               /\ Fetched
               /\ outcome = "error"
               /\ Len(waits) = RateLimits(i)
               /\ retries = cfg.retries - RateLimits(i)
               /\ items = Concat(served)

C5_Witness ==
    /\ outcome = "error"
    /\ Fetched
    /\ Len(served) = 1
    /\ items = <<RecA>>
    /\ Len(waits) = 1
    /\ retries = 1

\* C6 (as claimed): when load is over, every fetched record has been
\* mapped and validated, and every valid one is in the store.
C6_RecordsIndependent ==
    LoadOver =>
        /\ Len(ids) = Len(items)
        /\ \A i \in DOMAIN items :
              Valid(Schema, MapItem(cfg.mapper, items[i]))
                  => \E j \in DOMAIN store :
                        store[j].id = DeriveId(MapItem(cfg.mapper, items[i]))

\* C7 (as claimed): the k-th consecutive 429 of a page waits
\* base * 2^(k-1).
C7_BackoffPerPage ==
    \A j \in DOMAIN waits :
        waits[j].delay =
            cfg.delay * Pow2(Cardinality({i \in 1..(j - 1) : waits[i].page = waits[j].page}))

\* C7 (amended): the first wait of a fetchAll invocation uses the
\* configured delay and every further wait, on the same page or on a later
\* one, is exactly twice the wait before it.
C7_BackoffDoubles ==
    \A j \in DOMAIN waits :
        waits[j].delay = IF j = 1 THEN cfg.delay ELSE 2 * waits[j - 1].delay

C7_Witness ==
    /\ Len(waits) = 2
    /\ waits[1].page = 0
    /\ waits[2].page = 1
    /\ waits[2].delay = 2 * cfg.delay

\* C8 (as claimed): a page with an absent or empty list is the last page:
\* no request is issued for a later page.
C8_EmptyPageIsLast ==
    \A i \in DOMAIN served :
        ListOf(served[i]) = << >>
            => \A r \in DOMAIN requests : requests[r].page < i

\* C9: a second run of the ingest loop over the same records leaves the
\* store as the first run left it.
C9_IngestIdempotent ==
    (run = 2 /\ LoadOver) => store = snapshot

C9_Witness ==
    /\ run = 2
    /\ pc = "done"
    /\ Len(items) = 2
    /\ Len(store) = 2
    /\ \E j \in DOMAIN store : store[j].body = Str("s")

\* the id as claimed: Id when present and non-null, else id when present
\* and non-null, else "unknown"
ClaimedId(m) ==
    IF Get(m, "Id").t \notin {"undefined", "null"} THEN ToStr(Get(m, "Id"))
    ELSE IF Get(m, "id").t \notin {"undefined", "null"} THEN ToStr(Get(m, "id"))
    ELSE "unknown"

\* C10 (as claimed): the id of every processed record follows the
\* present-and-non-null rule.
C10_IdPresentNonNull ==
    \A i \in DOMAIN ids : ids[i] = ClaimedId(MapItem(cfg.mapper, items[i]))

\* C10 (amended): the id is the stringified Id when Id is truthy, else the
\* stringified id when id is truthy, else "unknown"; a present but falsy
\* value (0, the empty string, null) is passed over like an absent one.
C10_IdTruthy ==
    \A i \in DOMAIN ids :
        LET m == MapItem(cfg.mapper, items[i])
        IN \/ Truthy(Get(m, "Id")) /\ ids[i] = Get(m, "Id").s
           \/ ~Truthy(Get(m, "Id")) /\ Truthy(Get(m, "id")) /\ ids[i] = Get(m, "id").s
           \/ ~Truthy(Get(m, "Id")) /\ ~Truthy(Get(m, "id")) /\ ids[i] = "unknown"

C10_Witness ==
    /\ Len(ids) = 2
    /\ cfg.mapper = "none"
    /\ items[1] = [Id |-> Str(""), id |-> Str("b"), Album |-> Str("s")]
    /\ ids[1] = "b"
    /\ items[2] = [Id |-> Num("0"), Album |-> Str("s")]
    /\ ids[2] = "unknown"

\* the entries of the store filed under an id
EntriesOf(id) == {j \in DOMAIN store : store[j].id = id}

\* the last iteration of the loop stored a record: items[idx - 1]
JustStored == pc \in {"loop", "done"} /\ idx > 1 /\ Len(ids) = idx - 1

\* C11: the entry stored for a record has, when the validated record is
\* truthy at the body field, that value as body and the validated record
\* without that key as data; otherwise no body and the whole validated
\* record as data.
C11_BodyPromotion ==
    JustStored =>
        LET v == ParseData(Schema, MapItem(cfg.mapper, items[idx - 1]))
            f == cfg.bodyField
        IN \A j \in EntriesOf(ids[idx - 1]) :
              IF f \in DOMAIN v /\ Truthy(v[f])
              THEN /\ store[j].body = v[f]
                   /\ DOMAIN store[j].data = (DOMAIN v) \ {f}
                   /\ \A k \in DOMAIN store[j].data : store[j].data[k] = v[k]
              ELSE /\ store[j].body = Undefined
                   /\ store[j].data = v

C11_Witness ==
    /\ JustStored
    /\ idx = 3
    /\ cfg.bodyField = "Album"
    /\ cfg.mapper = "none"
    /\ items[1] = [Id |-> Str("a"), Album |-> Str(""), content |-> Str("hello")]
    /\ items[2] = RecA
    /\ store = <<[id |-> "a", data |-> [Id |-> Str("a")], body |-> Str("s")]>>

\* C12: with baseUrl or apiKey missing, nocodbCollections throws: no
\* collection is defined for any table and no request is ever issued.
C12_ConfigError ==
    (pc # "config" /\ (~Truthy(baseUrl) \/ ~Truthy(apiKey)))
        => (pc = "configError" /\ collections = {} /\ requests = << >>)

C12_Witness ==
    /\ pc = "configError"
    /\ baseUrl = Str("set")
    /\ apiKey = Str("")
    /\ collections = {}

\* the page size L of the table: the query's limit, 100 without one
LimitL == IF cfg.limit = NoLimit THEN DefaultLimit ELSE cfg.limit

EntryOf(raw) ==
    LET m == MapItem(cfg.mapper, raw)
        v == ParseData(Schema, m)
        f == cfg.bodyField
    IN IF f \in DOMAIN v /\ Truthy(v[f])
       THEN [id |-> DeriveId(m), data |-> [k \in (DOMAIN v) \ {f} |-> v[k]], body |-> v[f]]
       ELSE [id |-> DeriveId(m), data |-> v, body |-> Undefined]

\* C14 (as claimed): when a run of load has completed, every entry of the
\* store derives from a record fetched in this run.
C14_FetchAndReplace ==
    pc = "done" => \A j \in DOMAIN store : \E i \in DOMAIN items : store[j] = EntryOf(items[i])

\* the ids derived from the records of this run, and those the store held
\* when the run began
DerivedIds == {DeriveId(MapItem(cfg.mapper, items[i])) : i \in DOMAIN items}

SnapshotIds == {snapshot[j].id : j \in DOMAIN snapshot}

\* the last record of the list that maps to an id
LastWith(id) ==
    CHOOSE i \in DOMAIN items :
        /\ DeriveId(MapItem(cfg.mapper, items[i])) = id
        /\ \A k \in DOMAIN items : DeriveId(MapItem(cfg.mapper, items[k])) = id => k <= i

\* C15: after a record list is ingested, every derived id has exactly one
\* entry, the one of the last record of the list with that id, and the
\* store has grown by the number of distinct derived ids it did not hold.
C15_LastWriteWins ==
    pc = "done" =>
        /\ \A id \in DerivedIds :
              /\ Cardinality(EntriesOf(id)) = 1
              /\ \A j \in EntriesOf(id) : store[j] = EntryOf(items[LastWith(id)])
        /\ Len(store) = Len(snapshot) + Cardinality(DerivedIds \ SnapshotIds)

C15_Witness ==
    /\ pc = "done"
    /\ run = 1
    /\ snapshot = << >>
    /\ cfg.mapper = "none"
    /\ cfg.bodyField = "Album"
    /\ items = <<[content |-> Str("hello")], [Album |-> Str("s")]>>
    /\ store = <<[id |-> "unknown", data |-> << >>, body |-> Str("s")]>>

\* a 429, of either kind, has just been received with budget left
RateLimitedWithBudget ==
    /\ pc = "await"
    /\ retries > 0
    /\ Len(received') = Len(received) + 1
    /\ received'[Len(received')] \in {"status429", "thrown429"}

\* C16: a 429 with budget left, a status or a thrown error alike, starts
\* exactly one wait of the current delay and changes nothing else; when the
\* wait ends the budget is one less and the same offset is requested again
\* with the same accumulated records.
C16_RetrySameOffset ==
    [][/\ RateLimitedWithBudget
          => /\ pc' = "wait"
             /\ waits' = Append(waits, [delay |-> delay, page |-> Len(served)])
             /\ UNCHANGED <<offset, results, retries, delay, requests, served, items, store>>
       /\ pc = "wait"
          => /\ pc' = "call"
             /\ retries' = retries - 1
             /\ UNCHANGED <<offset, results, requests, received, waits, served, items, store>>
       /\ (pc = "call" /\ waits # << >> /\ waits[Len(waits)].page = Len(served))
          => /\ pc' = "await"
             /\ requests' = Append(requests, [offset |-> requests[Len(requests)].offset,
                                               limit |-> requests[Len(requests)].limit,
                                               retries |-> requests[Len(requests)].retries - 1,
                                               page |-> requests[Len(requests)].page])
             /\ UNCHANGED <<results, waits>>]_vars

C16_Witness ==
    /\ pc = "await"
    /\ received = <<"status429", "thrown429">>
    /\ Len(waits) = 2
    /\ Len(requests) = 3
    /\ requests[3].offset = requests[1].offset
    /\ requests[3].retries = requests[1].retries - 2
    /\ results = << >>

\* the requests issued for one offset
RequestsAt(o) == {i \in DOMAIN requests : requests[i].offset = o}

\* C17: with configured retries R no offset is requested more than R + 1
\* times and no more than R waits are made; when every request was answered
\* by a 429, fetchAll returns after exactly R + 1 requests and R waits.
C17_BoundedAttempts ==
    /\ \A i \in DOMAIN requests :
           Cardinality(RequestsAt(requests[i].offset)) <= cfg.retries + 1
    /\ Len(waits) <= cfg.retries
    /\ (Fetched /\ RateLimits(Len(received)) = Len(requests))
           => /\ Len(requests) = cfg.retries + 1
              /\ Len(waits) = cfg.retries
              /\ Exhausted

C17_Witness ==
    /\ Fetched
    /\ cfg.retries = MaxRetries
    /\ RateLimits(Len(received)) = Len(requests)
    /\ Len(requests) = MaxRetries + 1
    /\ received[1] = "thrown429"
    /\ received[Len(received)] = "status429"

\* the waits that have ended
WaitsOver == IF pc = "wait" THEN Len(waits) - 1 ELSE Len(waits)

RECURSIVE Replay(_, _)
Replay(st, cs) ==
    IF cs = << >> THEN st
    ELSE LET n == Len(cs)
             before == Replay(st, SubSeq(cs, 1, n - 1))
             e == cs[n]
         IN IF \E i \in DOMAIN before : before[i].id = e.id
            THEN [i \in DOMAIN before |-> IF before[i].id = e.id THEN e ELSE before[i]]
            ELSE Append(before, e)

\* the record at hand passes validation
RecordValid == Valid(Schema, MapItem(cfg.mapper, items[idx]))

\* C19: the store is untouched until fetchAll has returned; then it changes
\* only by set calls of the loop, one per validated record, in the order of
\* the fetched list, each with the complete entry of its record (id, data
\* without the body key, body); a record whose validation raises leaves the
\* store as it was.
C19_AtomicOrderedWrites ==
    /\ [](~Fetched => (store = << >> /\ sets = << >>))
    /\ [](Fetched => /\ Len(sets) = idx - 1
                     /\ \A i \in DOMAIN sets : sets[i] = EntryOf(items[i])
                     /\ store = Replay(snapshot, sets))
    /\ [][/\ (store' # store \/ sets' # sets)
             => /\ pc = "loop" /\ idx <= Len(items) /\ RecordValid
                /\ sets' = Append(sets, EntryOf(items[idx]))
                /\ idx' = idx + 1
          /\ (pc = "loop" /\ idx <= Len(items) /\ RecordValid)
             => Len(sets') = Len(sets) + 1
          /\ pc' = "raised"
             => (~RecordValid /\ UNCHANGED <<store, sets>>)]_vars

C19_Witness ==
    /\ pc = "raised"
    /\ Len(items) = 3
    /\ idx = 2
    /\ Len(sets) = 1
    /\ cfg.bodyField = "Album"
    /\ store = <<[id |-> "a", data |-> [Id |-> Str("a")], body |-> Str("s")]>>

\* C18: with every request answered and every timer firing, fetchAll
\* returns, whatever 429s and errors are mixed into the answers of a source
\* of finitely many pages; it returns for one of three reasons (a page with
\* isLastPage = true, an error that is no 429, a 429 with no budget left),
\* and once it has returned no request is issued.
C18_Terminates ==
    /\ <>Fetched
    /\ [](Fetched => outcome \in {"last", "error", "exhaustedStatus", "exhaustedThrown"})
    /\ [](~Fetched => outcome = "none")
    /\ [][Fetched => (Fetched' /\ requests' = requests /\ waits' = waits)]_vars

C18_Witness ==
    /\ pc = "done"
    /\ outcome = "last"
    /\ received = <<"thrown429", "page", "status429", "page">>
    /\ Len(requests) = 4
    /\ idx = 2

\* C21 (as claimed): when the table declares no bodyField, every entry the
\* load stores has no body and its data holds every key of the validated
\* record, a key named content included.
C21_NoPromotionUndeclared ==
    cfg.declared = "absent" =>
        \A i \in DOMAIN sets :
            /\ sets[i].body = Undefined
            /\ sets[i].data = ParseData(Schema, MapItem(cfg.mapper, items[i]))

====
